---- MODULE Spec2Model ----
(***************************************************************************)
(* Model of netatmo.py: the OAuth2 token lifecycle of WeatherStation       *)
(* (auth, loadCredentials, saveCredentials, loadTokens, saveTokens,        *)
(* accessToken) and the resumable CSV export (last_timestamp, dl_csv).     *)
(***************************************************************************)
EXTENDS Integers, Sequences, FiniteSets, TLC

(***************************************************************************)
(* Bounds of the model.                                                    *)
(***************************************************************************)
MaxLen == 4        \* longest sink content drawn for last_timestamp
MinTs == 5         \* upstream timestamps are MinTs..MaxTs
MaxTs == 10
MaxPage == 2       \* most entries in one measurement page
MaxReq == 2        \* getmeasure requests issued over all export runs
Back == 1          \* how far below the requested date_begin a page may reach
BufSize == 9       \* characters the file object holds back before writing
WindowEnd == 8     \* the date_end parameter of the export runs
SubSec == 2        \* clock ticks per second (time.time() is fractional)
MaxNow == 2        \* last clock tick
MaxExpires == 1    \* largest expires_in (seconds) of a token response

(***************************************************************************)
(* Characters and strings.  A string is a sequence of one-character        *)
(* strings.                                                                *)
(***************************************************************************)
NL == "\n"
SEMI == ";"
DigitChars == <<"0", "1", "2", "3", "4", "5", "6", "7", "8", "9">>
DigitSet == {DigitChars[k] : k \in 1..10}

DigitVal(c) == CHOOSE k \in 0..9 : DigitChars[k + 1] = c

RECURSIVE IntToStr(_)
\* str(t) of a non-negative int, as csv.writer writes it
IntToStr(n) ==
  IF n < 10 THEN <<DigitChars[n + 1]>>
  ELSE IntToStr(n \div 10) \o <<DigitChars[(n % 10) + 1]>>

\* str.isnumeric() on ASCII text: non-empty, digits only
isnumeric(t) == Len(t) > 0 /\ \A k \in 1..Len(t) : t[k] \in DigitSet

RECURSIVE StrToInt(_)
\* int(t) for a string of digits
StrToInt(t) ==
  IF Len(t) = 0 THEN 0
  ELSE 10 * StrToInt(SubSeq(t, 1, Len(t) - 1)) + DigitVal(t[Len(t)])

\* str.find(c): 0-based index of the first occurrence, -1 when absent
find(s, c) ==
  IF \E k \in 1..Len(s) : s[k] = c
  THEN (CHOOSE k \in 1..Len(s) : s[k] = c /\ \A j \in 1..(k - 1) : s[j] # c) - 1
  ELSE -1

\* Python slice s[0:e] (a negative e counts from the end)
slice0(s, e) ==
  LET stop == IF e < 0 THEN Len(s) + e ELSE e
      hi == IF stop > Len(s) THEN Len(s) ELSE stop
  IN IF hi <= 0 THEN <<>> ELSE SubSeq(s, 1, hi)

\* order of Python str comparison: code points left to right, a proper
\* prefix is smaller.  For digit strings code-point order is digit order.
CharLess(a, b) == DigitVal(a) < DigitVal(b)

RECURSIVE StrLess(_, _)
StrLess(a, b) ==
  IF Len(b) = 0 THEN FALSE
  ELSE IF Len(a) = 0 THEN TRUE
  ELSE IF a[1] = b[1] THEN StrLess(Tail(a), Tail(b))
  ELSE CharLess(a[1], b[1])

(***************************************************************************)
(* The sink file.  NoFile is a path that does not exist.                   *)
(***************************************************************************)
NoFile == <<"<absent>">>

FileBytes(f) == IF f = NoFile THEN <<>> ELSE f

\* f.readlines()[-1] on a non-empty chunk: the text after the last line
\* terminator that is not the final character, terminator included
LastLine(chunk) ==
  LET n == Len(chunk)
      brk == {k \in 1..(n - 1) : chunk[k] = NL}
      from == IF brk = {} THEN 1
              ELSE (CHOOSE k \in brk : \A j \in brk : j <= k) + 1
  IN SubSeq(chunk, from, n)

TailWindow == 100

last_timestamp(f) ==
  IF f = NoFile THEN 0
  ELSE LET size == Len(f)
           taille == IF size < TailWindow THEN size ELSE TailWindow
       IN IF taille = 0 THEN 0
          ELSE LET chunk == SubSeq(f, size - taille + 1, size)
                   last == LastLine(chunk)
                   t == slice0(last, find(last, SEMI))
               IN IF isnumeric(t) THEN StrToInt(t) ELSE 0

\* dl_csv lines 398-399
ResumeStart(f) ==
  LET s == last_timestamp(f) IN IF s > 0 THEN s + 1 ELSE s

(***************************************************************************)
(* State.                                                                  *)
(***************************************************************************)
VARIABLES
  sink,      \* the csv file on disk: NoFile or its characters
  buf,       \* characters written to csv_file and not yet on disk
  pc,        \* position of dl_csv
  start,     \* dl_csv's resume cursor
  n,         \* dl_csv's request counter
  items,     \* sorted(v['body'].items()) of the page being written
  i,         \* index of the next entry of items to write
  pages,     \* bodies of the "ok" responses received in this run
  honest,    \* every page so far held only timestamps >= its date_begin
  killed,    \* an export run was terminated before it closed the file
  sink0,     \* the file as it was when this run opened it
  reqs       \* getmeasure requests issued so far, over all runs

expvars == <<sink, buf, pc, start, n, items, i, pages, honest, killed, sink0,
            reqs>>

VARIABLES
  client_id, client_secret, username, password,   \* WeatherStation._client_id ...
  access_token, refresh_token, expiration,        \* WeatherStation._access_token ...
  default_station,
  rc_file,   \* the path of the configuration file, or NONE
  rc,        \* the configuration file on disk
  now,       \* time.time(), in clock ticks
  ret,       \* what the last read of accessToken returned
  prev,      \* what the read of accessToken before it returned
  sent       \* the token-endpoint requests the last operation issued

tokvars == <<client_id, client_secret, username, password, access_token,
            refresh_token, expiration, default_station, rc_file, rc, now, ret,
            prev, sent>>

VARIABLES
  devices,   \* WeatherStation.devices: the snapshot of the last directory fetch
  result     \* what the last call of a directory method returned

dirvars == <<devices, result>>

vars == <<expvars, tokvars, dirvars>>

(***************************************************************************)
(* WeatherStation: credentials, tokens and the configuration file.         *)
(***************************************************************************)
NONE == "<None>"          \* Python's None
RetFalse == "<False>"     \* Python's False
NoRet == "<no read>"      \* the last operation was not a read of accessToken
RcPath == "~/.netatmorc"

\* default_station and the identifiers of stations and modules are strings
\* of characters; NoStation is None in their place, <<>> is ''
NoStation == <<"<None>">>
\* self.devices before any fetch, and after one
NoDevices == [none |-> TRUE, list |-> <<>>]
Devices(list) == [none |-> FALSE, list |-> list]
\* the values a directory method returns
NoResult == [kind |-> "no call"]
NoneResult == [kind |-> "None"]
Bool(b) == [kind |-> "bool", value |-> b]
Entry(e) == [kind |-> "entry", entry |-> e]

DirIdle == devices = NoDevices /\ result = NoResult

\* str(x) as saveCredentials applies it
str(x) == IF x = NONE THEN "None" ELSE x

\* the two sections of the configuration file
NoSection == [has |-> FALSE]
NoRc == [exists |-> FALSE, netatmo |-> NoSection, tokens |-> NoSection]

\* datetime.fromtimestamp(int(e)).isoformat(): the whole second of e
IsoSecond(e) == e \div SubSec
\* datetime.strptime(text, ...).timestamp(): the tick that second starts at
FromIso(sec) == sec * SubSec

\* the configuration an object starts from, before any file is read
TokIdle ==
  /\ client_id = NONE /\ client_secret = NONE
  /\ username = NONE /\ password = NONE
  /\ access_token = NONE /\ refresh_token = NONE /\ expiration = -1
  /\ default_station = NoStation
  /\ rc_file = RcPath /\ rc = NoRc
  /\ now = 0 /\ ret = NoRet /\ prev = NoRet /\ sent = <<>>

(***************************************************************************)
(* csv rows.                                                               *)
(***************************************************************************)
\* line 406-407: the header row; quoted text fields are not numeric
Header == <<"T", SEMI, "D", SEMI, "F", NL>>

\* lines 425-429: one data row: the int timestamp unquoted, the date text,
\* the metric values
Row(t) == IntToStr(t) \o <<SEMI, "d", SEMI, "v", NL>>

\* csv_file.write(text) on a block-buffered text file (line 401 opens it
\* with the default buffering and nothing flushes it before line 438): the
\* text joins the pending characters; when they would exceed the buffer
\* size the pending characters go to disk first
WriteDisk(f, b, text) == IF Len(b \o text) > BufSize THEN f \o b ELSE f
WriteBuf(b, text) == IF Len(b \o text) > BufSize THEN text ELSE b \o text

(***************************************************************************)
(* The measurements endpoint: any page of at most MaxPage timestamps.      *)
(***************************************************************************)
Stamps == MinTs..MaxTs

Bodies(begin) ==
  {S \in SUBSET {t \in Stamps : t >= begin - Back} : Cardinality(S) <= MaxPage}

Responses(begin) ==
  [status : {"ok"}, body : Bodies(begin)]
    \cup [status : {"error", "<missing>"}, body : {{}}]

RECURSIVE SortedItems(_)
\* sorted(v['body'].items()): the keys are the timestamps as JSON strings,
\* so the order is the order of str
SortedItems(S) ==
  IF S = {} THEN <<>>
  ELSE LET m == CHOOSE x \in S :
                  \A y \in S \ {x} : StrLess(IntToStr(x), IntToStr(y))
       IN <<m>> \o SortedItems(S \ {m})

(***************************************************************************)
(* dl_csv.                                                                 *)
(***************************************************************************)
ExpIdle ==
  /\ sink = NoFile /\ buf = <<>> /\ pc = "idle" /\ start = 0 /\ n = 0
  /\ items = <<>> /\ i = 0 /\ pages = <<>> /\ honest = TRUE /\ sink0 = NoFile
  /\ reqs = 0 /\ killed = FALSE

InitExport == ExpIdle /\ TokIdle /\ DirIdle

OpenAlwaysHeader ==
  /\ pc = "idle"
  /\ start' = ResumeStart(sink)
  /\ sink0' = sink
  /\ sink' = WriteDisk(FileBytes(sink), <<>>, Header)
  /\ buf' = WriteBuf(<<>>, Header)
  /\ n' = 0 /\ items' = <<>> /\ i' = 0 /\ pages' = <<>>
  /\ pc' = "getmeasure"
  /\ UNCHANGED <<reqs, honest, killed>>

\* lines 398-409
Open ==
  /\ pc = "idle"
  /\ start' = ResumeStart(sink)
  /\ sink0' = sink
  /\ LET f == FileBytes(sink)
         hdr == IF Len(f) = 0 THEN Header ELSE <<>>
     IN /\ sink' = WriteDisk(f, <<>>, hdr)
        /\ buf' = WriteBuf(<<>>, hdr)
  /\ n' = 0 /\ items' = <<>> /\ i' = 0 /\ pages' = <<>>
  /\ pc' = "getmeasure"
  /\ UNCHANGED <<reqs, honest, killed>>

StatusOkNoMissingCheck(v) == v.status # "error"

\* line 416
StatusOk(v) == v.status = "ok"

\* lines 411-424: one request and the checks on its response
GetMeasure(v) ==
  /\ pc = "getmeasure"
  /\ reqs < MaxReq
  /\ reqs' = reqs + 1
  /\ n' = n + 1
  /\ IF ~StatusOk(v)
     THEN /\ pc' = "error"
          /\ UNCHANGED <<items, i, pages, honest>>
     ELSE /\ pages' = Append(pages, v.body)
          /\ honest' = (honest /\ \A t \in v.body : t >= start)
          /\ IF v.body = {}
             THEN pc' = "the_end" /\ UNCHANGED <<items, i>>
             ELSE pc' = "writerow" /\ items' = SortedItems(v.body) /\ i' = 1
  /\ UNCHANGED <<sink, buf, start, sink0, killed>>

\* line 430
Advance(s, t) == IF s < t THEN t ELSE s

\* lines 424-430: one iteration of the for loop
WriteRow ==
  /\ pc = "writerow"
  /\ LET t == items[i]
     IN /\ sink' = WriteDisk(sink, buf, Row(t))
        /\ buf' = WriteBuf(buf, Row(t))
        /\ start' = Advance(start, t)
  /\ i' = i + 1
  /\ pc' = IF i = Len(items) THEN "endpage" ELSE "writerow"
  /\ UNCHANGED <<n, items, pages, honest, killed, sink0, reqs>>

CoveredStrict(s) == s > WindowEnd

\* line 432
Covered(s) == s >= WindowEnd

\* lines 432-436
EndPage ==
  /\ pc = "endpage"
  /\ IF Covered(start)
     THEN pc' = "last_measure" /\ UNCHANGED start
     ELSE pc' = "getmeasure" /\ start' = start + 1
  /\ UNCHANGED <<sink, buf, n, items, i, pages, honest, killed, sink0, reqs>>

\* line 438: close() writes the pending characters to disk
Close ==
  /\ pc \in {"error", "the_end", "last_measure"}
  /\ sink' = sink \o buf
  /\ buf' = <<>>
  /\ pc' = "idle"
  /\ start' = 0 /\ n' = 0 /\ items' = <<>> /\ i' = 0 /\ pages' = <<>>
  /\ sink0' = sink'
  /\ UNCHANGED <<reqs, honest, killed>>

\* the process is terminated: what csv_file had not written yet is lost
Kill ==
  /\ pc # "idle"
  /\ buf' = <<>>
  /\ pc' = "idle"
  /\ start' = 0 /\ n' = 0 /\ items' = <<>> /\ i' = 0 /\ pages' = <<>>
  /\ sink0' = sink /\ killed' = TRUE
  /\ UNCHANGED <<sink, reqs, honest>>

NextExport ==
  \/ Open /\ UNCHANGED <<tokvars, dirvars>>
  \/ \E v \in Responses(start) : GetMeasure(v) /\ UNCHANGED <<tokvars, dirvars>>
  \/ WriteRow /\ UNCHANGED <<tokvars, dirvars>>
  \/ EndPage /\ UNCHANGED <<tokvars, dirvars>>
  \/ Close /\ UNCHANGED <<tokvars, dirvars>>
  \/ Kill /\ UNCHANGED <<tokvars, dirvars>>

SpecExport == InitExport /\ [][NextExport]_vars

(***************************************************************************)
(* The resume point of any sink content: last_timestamp applied by Open.   *)
(***************************************************************************)
SinkChars == {"0", "7", SEMI, NL, "x"}

RECURSIVE Texts(_)
Texts(k) ==
  IF k = 0 THEN {<<>>}
  ELSE LET shorter == Texts(k - 1)
       IN shorter \cup {Append(t, c) : t \in shorter, c \in SinkChars}

InitResume ==
  /\ sink \in {NoFile} \cup Texts(MaxLen)
  /\ buf = <<>> /\ pc = "idle" /\ start = 0 /\ n = 0
  /\ items = <<>> /\ i = 0 /\ pages = <<>> /\ honest = TRUE /\ sink0 = NoFile
  /\ reqs = 0 /\ killed = FALSE
  /\ TokIdle /\ DirIdle

NextResume == Open /\ UNCHANGED <<tokvars, dirvars>>

SpecResume == InitResume /\ [][NextResume]_vars

(***************************************************************************)
(* Export runs over a sink that an earlier run has written.                *)
(***************************************************************************)
RECURSIVE RowsOf(_)
\* the rows dl_csv writes for the entries ts, in that order
RowsOf(ts) == IF ts = <<>> THEN <<>> ELSE Row(Head(ts)) \o RowsOf(Tail(ts))

\* the sinks one earlier run leaves from one page: header, then the page's
\* rows in the order of sorted(v['body'].items())
PastSinks ==
  {Header \o RowsOf(SortedItems(P)) : P \in Bodies(0) \ {{}}}

InitPaging ==
  /\ sink \in {NoFile} \cup PastSinks
  /\ sink0 = sink
  /\ buf = <<>> /\ pc = "idle" /\ start = 0 /\ n = 0
  /\ items = <<>> /\ i = 0 /\ pages = <<>> /\ honest = TRUE
  /\ reqs = 0 /\ killed = FALSE
  /\ TokIdle /\ DirIdle

SpecPaging == InitPaging /\ [][NextExport]_vars

\* line 356: getMeasure puts date_begin into the request only when it is
\* truthy; <<>> is a request without date_begin
DateBegin(s) == IF s # 0 THEN <<s>> ELSE <<>>
\* the first timestamp a request asks for: without date_begin, from the start
BeginOf(param) == IF param = <<>> THEN 0 ELSE param[1]

(***************************************************************************)
(* Reading a sink back: its lines and the timestamps of its data rows.     *)
(***************************************************************************)
RECURSIVE SplitLines(_)
SplitLines(f) ==
  IF f = <<>> THEN <<>>
  ELSE LET k == find(f, NL)
       IN IF k = -1 THEN <<f>>
          ELSE <<SubSeq(f, 1, k)>> \o SplitLines(SubSeq(f, k + 2, Len(f)))

FirstField(line) == slice0(line, find(line, SEMI))
IsRowLine(line) == find(line, SEMI) > 0 /\ isnumeric(FirstField(line))

RowTs(f) ==
  LET rows == SelectSeq(SplitLines(f), IsRowLine)
  IN [k \in 1..Len(rows) |-> StrToInt(FirstField(rows[k]))]

StrictlyIncreasing(s) == \A k \in 1..(Len(s) - 1) : s[k] < s[k + 1]

IsPrefix(a, b) == Len(a) <= Len(b) /\ SubSeq(b, 1, Len(a)) = a

\* everything written to the file so far, on disk or pending
Written == FileBytes(sink) \o buf

(***************************************************************************)
(* C5.  For every sink content the resume timestamp is the last row's      *)
(* timestamp + 1 when the last line's first field is a complete integer    *)
(* timestamp (a run of digits closed by ';'), and 0 otherwise: missing,    *)
(* empty, header-only, malformed or truncated last line, no ';'.           *)
(***************************************************************************)
ClaimedResume(f) ==
  LET ls == SplitLines(FileBytes(f))
  IN IF ls = <<>> THEN 0
     ELSE IF IsRowLine(ls[Len(ls)])
          THEN StrToInt(FirstField(ls[Len(ls)])) + 1
          ELSE 0

C5_ResumeFromLastRow == pc = "getmeasure" => start = ClaimedResume(sink0)

(***************************************************************************)
(* The methods of WeatherStation, on the object o and the file f.          *)
(***************************************************************************)
Self ==
  [client_id |-> client_id, client_secret |-> client_secret,
   username |-> username, password |-> password,
   access_token |-> access_token, refresh_token |-> refresh_token,
   expiration |-> expiration, default_station |-> default_station,
   rc_file |-> rc_file]

Become(o) ==
  /\ client_id' = o.client_id /\ client_secret' = o.client_secret
  /\ username' = o.username /\ password' = o.password
  /\ access_token' = o.access_token /\ refresh_token' = o.refresh_token
  /\ expiration' = o.expiration /\ default_station' = o.default_station
  /\ rc_file' = o.rc_file

authKeepsToken(o, c, s, u, p) ==
  [o EXCEPT !.client_id = c, !.client_secret = s, !.username = u,
            !.password = p]

\* lines 124-129
auth(o, c, s, u, p) ==
  [o EXCEPT !.client_id = c, !.client_secret = s, !.username = u,
            !.password = p, !.access_token = NONE]

\* lines 131-146
loadCredentials(o, f) ==
  IF o.rc_file = NONE THEN o
  ELSE IF f.exists /\ f.netatmo.has
       THEN LET a == auth(o, f.netatmo.client_id, f.netatmo.client_secret,
                          f.netatmo.username, f.netatmo.password)
            IN IF f.netatmo.default_station # NoStation
               THEN [a EXCEPT !.default_station = f.netatmo.default_station]
               ELSE a
       ELSE auth(o, NONE, NONE, NONE, NONE)

\* lines 148-167
saveCredentials(o, f) ==
  IF o.rc_file = NONE THEN f
  ELSE [exists |-> TRUE,
        netatmo |-> [has |-> TRUE,
                     client_id |-> str(o.client_id),
                     client_secret |-> str(o.client_secret),
                     username |-> str(o.username),
                     password |-> str(o.password),
                     default_station |-> o.default_station],
        tokens |-> NoSection]

\* lines 169-182
loadTokens(o, f) ==
  IF o.rc_file = NONE THEN o
  ELSE IF f.exists /\ f.tokens.has
       THEN [o EXCEPT !.access_token = f.tokens.access_token,
                      !.refresh_token = f.tokens.refresh_token,
                      !.expiration = FromIso(f.tokens.expiration)]
       ELSE [o EXCEPT !.access_token = NONE]

saveTokensForgotten(o, f) == f

\* lines 184-197
saveTokens(o, f) ==
  IF o.rc_file = NONE THEN f
  ELSE [exists |-> TRUE,
        netatmo |-> f.netatmo,
        tokens |-> [has |-> TRUE,
                    access_token |-> o.access_token,
                    refresh_token |-> o.refresh_token,
                    expiration |-> IsoSecond(o.expiration)]]

\* the answers of the token endpoint
TokenPairs == {<<"a1", "r1">>, <<"a2", "r2">>}
TokenResponses ==
  {[kind |-> "ok", access_token |-> tp[1], refresh_token |-> tp[2],
    expires_in |-> e] : tp \in TokenPairs, e \in 0..MaxExpires}
    \cup {[kind |-> "error"], [kind |-> "null"]}

\* lines 225-229 and 247-250
granted(o, f, resp, t, req) ==
  LET o2 == [o EXCEPT !.access_token = resp.access_token,
                      !.refresh_token = resp.refresh_token,
                      !.expiration = resp.expires_in * SubSec + t]
  IN [o |-> o2, f |-> saveTokens(o2, f), ret |-> o2.access_token,
      sent |-> <<req>>, now |-> t]

requestSavesOnError(o, f, resp, t, req) ==
  IF resp.kind = "null"
  THEN [o |-> o, f |-> f, ret |-> RetFalse, sent |-> <<req>>, now |-> t]
  ELSE IF resp.kind = "error"
  THEN [o |-> o, f |-> saveTokens(o, f), ret |-> NONE, sent |-> <<req>>,
        now |-> t]
  ELSE granted(o, f, resp, t, req)

\* lines 219-223 and 241-245: one request and the checks on its response
request(o, f, resp, t, req) ==
  IF resp.kind = "null"
  THEN [o |-> o, f |-> f, ret |-> RetFalse, sent |-> <<req>>, now |-> t]
  ELSE IF resp.kind = "error"
  THEN [o |-> o, f |-> f, ret |-> NONE, sent |-> <<req>>, now |-> t]
  ELSE granted(o, f, resp, t, req)

unavailable(o, f, t) ==
  [o |-> o, f |-> f, ret |-> NONE, sent |-> <<>>, now |-> t]

NeedsRefreshStrict(e, t) == e < t
NeedsRefreshInverted(e, t) == e >= t

\* line 232
NeedsRefresh(e, t) == e <= t

\* lines 199-256: a read of the property at time t; resp answers the
\* request it may issue
accessToken(o, f, t, resp) ==
  IF o.client_id = NONE \/ o.client_secret = NONE
  THEN unavailable(o, f, t)
  ELSE IF o.access_token = NONE
  THEN IF o.username = NONE \/ o.password = NONE
       THEN unavailable(o, f, t)
       ELSE request(o, f, resp, t, "password")
  ELSE IF NeedsRefresh(o.expiration, t)
  THEN request(o, f, resp, t, "refresh_token")
  ELSE [o |-> o, f |-> f, ret |-> o.access_token, sent |-> <<>>, now |-> t]

\* a new object, before __init__ has run
Blank ==
  [client_id |-> NONE, client_secret |-> NONE, username |-> NONE,
   password |-> NONE, access_token |-> NONE, refresh_token |-> NONE,
   expiration |-> -1, default_station |-> NoStation, rc_file |-> NONE]

\* the credentials auth is called with
Complete == [client_id |-> "id", client_secret |-> "secret",
             username |-> "user", password |-> "pw"]
AllNone == [client_id |-> NONE, client_secret |-> NONE, username |-> NONE,
            password |-> NONE]
AuthArgs ==
  {Complete,
   [Complete EXCEPT !.username = "", !.password = ""],
   [Complete EXCEPT !.username = NONE, !.password = NONE],
   AllNone}

\* the argument of WeatherStation(...): a dict of credentials, or a path
Configurations ==
  {[type |-> "dict", dict |-> a, path |-> NONE] : a \in AuthArgs}
    \cup {[type |-> "str", dict |-> AllNone, path |-> RcPath]}

\* lines 104-122
init(configuration, f) ==
  LET o1 == auth(Blank, NONE, NONE, NONE, NONE)
  IN IF configuration.type = "dict"
     THEN auth(o1, configuration.dict.client_id,
               configuration.dict.client_secret,
               configuration.dict.username, configuration.dict.password)
     ELSE LET o2 == [o1 EXCEPT !.rc_file = configuration.path]
          IN loadTokens(loadCredentials(o2, f), f)

(***************************************************************************)
(* The operations of a session.                                            *)
(***************************************************************************)
NotARead == ret' = NoRet /\ prev' = NoRet /\ sent' = <<>>

NewSession(configuration) ==
  /\ Become(init(configuration, rc))
  /\ NotARead
  /\ UNCHANGED <<rc, now>>

Auth(a) ==
  /\ Become(auth(Self, a.client_id, a.client_secret, a.username, a.password))
  /\ NotARead
  /\ UNCHANGED <<rc, now>>

LoadCredentials ==
  /\ Become(loadCredentials(Self, rc))
  /\ NotARead
  /\ UNCHANGED <<rc, now>>

SaveCredentials ==
  /\ rc' = saveCredentials(Self, rc)
  /\ NotARead
  /\ UNCHANGED <<client_id, client_secret, username, password, access_token,
                 refresh_token, expiration, default_station, rc_file, now>>

LoadTokens ==
  /\ Become(loadTokens(Self, rc))
  /\ NotARead
  /\ UNCHANGED <<rc, now>>

AccessToken(resp) ==
  LET r == accessToken(Self, rc, now, resp)
  IN /\ Become(r.o)
     /\ rc' = r.f
     /\ now' = r.now
     /\ ret' = r.ret
     /\ prev' = ret
     /\ sent' = r.sent

Tick ==
  /\ now < MaxNow
  /\ now' = now + 1
  /\ UNCHANGED <<client_id, client_secret, username, password, access_token,
                 refresh_token, expiration, default_station, rc_file, rc, ret,
                 prev, sent>>

InitToken == TokIdle /\ ExpIdle /\ DirIdle

NextToken ==
  \/ \E c \in Configurations : NewSession(c) /\ UNCHANGED <<expvars, dirvars>>
  \/ \E a \in AuthArgs : Auth(a) /\ UNCHANGED <<expvars, dirvars>>
  \/ LoadCredentials /\ UNCHANGED <<expvars, dirvars>>
  \/ SaveCredentials /\ UNCHANGED <<expvars, dirvars>>
  \/ LoadTokens /\ UNCHANGED <<expvars, dirvars>>
  \/ \E resp \in TokenResponses : AccessToken(resp) /\ UNCHANGED <<expvars, dirvars>>
  \/ Tick /\ UNCHANGED <<expvars, dirvars>>

SpecToken == InitToken /\ [][NextToken]_vars

(***************************************************************************)
(* The station directory: getData, setDefaultStation, stationByName,       *)
(* moduleByName.                                                           *)
(***************************************************************************)
UpperChars == <<"A", "B", "C", "D", "E", "F", "H">>
LowerChars == <<"a", "b", "c", "d", "e", "f", "h">>

\* str.lower(), character by character
LowerChar(c) ==
  IF \E k \in 1..Len(UpperChars) : UpperChars[k] = c
  THEN LowerChars[CHOOSE k \in 1..Len(UpperChars) : UpperChars[k] = c]
  ELSE c
lower(t) == [k \in 1..Len(t) |-> LowerChar(t[k])]

HexChars == DigitSet \cup {"a", "b", "c", "d", "e", "f"}
MacGroups == 6

\* line 292: re.match('^' + '[\:\-]'.join(['([0-9a-f]{2})']*6) + '$', t);
\* '$' matches at the end of t and also before a newline that ends t
IsMac(t) ==
  LET body == IF t # <<>> /\ t[Len(t)] = NL THEN SubSeq(t, 1, Len(t) - 1)
              ELSE t
  IN /\ Len(body) = 3 * MacGroups - 1
     /\ \A k \in 1..Len(body) :
          IF k % 3 = 0 THEN body[k] \in {":", "-"} ELSE body[k] \in HexChars

RECURSIVE FirstStation(_, _)
\* lines 307-311: the for loop of stationByName
FirstStation(list, station) ==
  IF list = <<>> THEN NoneResult
  ELSE LET dev == Head(list)
       IN IF station = <<>> \/ station = NoStation THEN Entry(dev)
          ELSE IF dev.station_name = station THEN Entry(dev)
          ELSE IF lower(dev._id) = lower(station) THEN Entry(dev)
          ELSE FirstStation(Tail(list), station)

\* lines 304-311
stationByName(devs, default, station) ==
  IF devs.none THEN NoneResult
  ELSE FirstStation(devs.list,
                    IF station = NoStation \/ station = <<>> THEN default
                    ELSE station)

RECURSIVE FirstModule(_, _)
\* lines 318-321: the for loop of moduleByName
FirstModule(mods, module) ==
  IF mods = <<>> THEN NoneResult
  ELSE LET mod == Head(mods)
       IN IF mod.module_name = module THEN Entry(mod)
          ELSE IF mod._id = module THEN Entry(mod)
          ELSE FirstModule(Tail(mods), module)

\* lines 313-321
moduleByName(devs, default, module, station) ==
  LET s == stationByName(devs, default, station)
  IN IF s = NoneResult THEN NoneResult
     ELSE IF s.entry.module_name = module THEN s
     ELSE IF s.entry._id = module THEN s
     ELSE FirstModule(s.entry.modules, module)

\* the answers of the directory endpoint
Mac(a, b, sep) ==
  <<a, b, sep, a, b, sep, a, b, sep, a, b, sep, a, b, sep, a, b>>
IdA == Mac("a", "4", ":")
IdAUpper == Mac("A", "4", ":")
IdB == Mac("b", "5", ":")
ModId == Mac("0", "c", ":")
ModIdUpper == Mac("0", "C", ":")
Home == <<"H", "o", "m", "e">>
Indoor == <<"i", "n">>
Outdoor == <<"o", "u", "t">>

DevA ==
  [_id |-> IdA, station_name |-> Home, module_name |-> Indoor,
   modules |-> <<[_id |-> ModId, module_name |-> Outdoor]>>]
\* a station that its owner named like the id of another station
DevB ==
  [_id |-> IdB, station_name |-> IdAUpper, module_name |-> Indoor,
   modules |-> <<>>]

Snapshots == {<<>>, <<DevA>>, <<DevA, DevB>>, <<DevB, DevA>>}
DirResponses ==
  {[kind |-> "ok", devices |-> l] : l \in Snapshots} \cup {[kind |-> "error"]}
\* the answers of the token endpoint to the reads these methods make
DirTokenResponses ==
  {[kind |-> "ok", access_token |-> "a1", refresh_token |-> "r1",
    expires_in |-> MaxExpires],
   [kind |-> "error"], [kind |-> "null"]}

\* lines 259-283; tokresp answers the token request the read of accessToken
\* may issue, dirresp the getstationsdata request
getData(o, f, t, devs, tokresp, dirresp) ==
  LET r == accessToken(o, f, t, tokresp)
      posted == r.sent \o <<"getstationsdata">>
  IN IF r.ret = NONE
     THEN [o |-> r.o, f |-> r.f, ret |-> r.ret, sent |-> r.sent,
           devices |-> devs, value |-> FALSE]
     ELSE IF dirresp.kind = "ok"
     THEN [o |-> r.o, f |-> r.f, ret |-> r.ret, sent |-> posted,
           devices |-> Devices(dirresp.devices), value |-> TRUE]
     ELSE [o |-> r.o, f |-> r.f, ret |-> r.ret, sent |-> posted,
           devices |-> devs, value |-> FALSE]

\* lines 286-302
setDefaultStation(o, f, t, devs, device, tokresp, dirresp) ==
  IF device = <<>>
  THEN [o |-> [o EXCEPT !.default_station = NoStation], f |-> f,
        ret |-> NoRet, sent |-> <<>>, devices |-> devs, value |-> TRUE]
  ELSE IF IsMac(lower(device))
  THEN [o |-> [o EXCEPT !.default_station = lower(device)], f |-> f,
        ret |-> NoRet, sent |-> <<>>, devices |-> devs, value |-> TRUE]
  ELSE LET g == getData(o, f, t, devs, tokresp, dirresp)
           found == stationByName(g.devices, g.o.default_station, device)
       IN IF found # NoneResult
          THEN [g EXCEPT !.o.default_station = found.entry._id,
                         !.value = TRUE]
          ELSE [g EXCEPT !.value = FALSE]

StationArgs == {NoStation, <<>>, Home, lower(Home), IdA, IdAUpper, IdB}
ModuleStationArgs == {NoStation, IdAUpper, Home}
ModuleArgs == {<<>>, Indoor, Outdoor, ModId, ModIdUpper, IdA}
DeviceArgs ==
  {<<>>, IdA, IdAUpper, Mac("B", "5", "-"), IdB \o <<NL>>, Home, lower(Home)}

\* the operations of a session on the directory
IsObject(o) ==
  /\ client_id = o.client_id /\ client_secret = o.client_secret
  /\ username = o.username /\ password = o.password
  /\ access_token = o.access_token /\ refresh_token = o.refresh_token
  /\ expiration = o.expiration /\ default_station = o.default_station
  /\ rc_file = o.rc_file

\* a request made with the token False of a failed read is not answered ok
Answers(r, dirresp) == (r.ret = RetFalse) => (dirresp.kind = "error")

GetData(tokresp, dirresp) ==
  LET g == getData(Self, rc, now, devices, tokresp, dirresp)
  IN /\ Answers(g, dirresp)
     /\ Become(g.o)
     /\ rc' = g.f
     /\ ret' = g.ret /\ prev' = ret /\ sent' = g.sent
     /\ devices' = g.devices
     /\ result' = Bool(g.value)
     /\ UNCHANGED now

SetDefaultStation(device, tokresp, dirresp) ==
  LET g == setDefaultStation(Self, rc, now, devices, device, tokresp, dirresp)
  IN /\ Answers(g, dirresp)
     /\ Become(g.o)
     /\ rc' = g.f
     /\ ret' = g.ret /\ prev' = ret /\ sent' = g.sent
     /\ devices' = g.devices
     /\ result' = Bool(g.value)
     /\ UNCHANGED now

StationByName(station) ==
  /\ result' = stationByName(devices, default_station, station)
  /\ NotARead
  /\ UNCHANGED <<client_id, client_secret, username, password, access_token,
                 refresh_token, expiration, default_station, rc_file, rc, now,
                 devices>>

ModuleByName(module, station) ==
  /\ result' = moduleByName(devices, default_station, module, station)
  /\ NotARead
  /\ UNCHANGED <<client_id, client_secret, username, password, access_token,
                 refresh_token, expiration, default_station, rc_file, rc, now,
                 devices>>

InitDirectory ==
  /\ ExpIdle /\ DirIdle
  /\ \E c \in Configurations : IsObject(init(c, NoRc))
  /\ rc = NoRc /\ now = 0 /\ ret = NoRet /\ prev = NoRet /\ sent = <<>>

NextDirectory ==
  \/ \E tokresp \in DirTokenResponses, dirresp \in DirResponses :
       GetData(tokresp, dirresp) /\ UNCHANGED expvars
  \/ \E device \in DeviceArgs, tokresp \in DirTokenResponses,
        dirresp \in DirResponses :
       SetDefaultStation(device, tokresp, dirresp) /\ UNCHANGED expvars
  \/ \E station \in StationArgs : StationByName(station) /\ UNCHANGED expvars
  \/ \E module \in ModuleArgs, station \in ModuleStationArgs :
       ModuleByName(module, station) /\ UNCHANGED expvars

SpecDirectory == InitDirectory /\ [][NextDirectory]_vars

(***************************************************************************)
(* dl_csv with the read of accessToken that getMeasure makes.              *)
(***************************************************************************)
\* the answers of the token endpoint during an export: a token that has to
\* be refreshed at the next read, an error, an empty answer
ExportTokenResponses ==
  {[kind |-> "ok", access_token |-> "a1", refresh_token |-> "r1",
    expires_in |-> 0],
   [kind |-> "error"], [kind |-> "null"]}

\* lines 410-418 with 336-361: n += 1, then getMeasure reads accessToken; it
\* returns None without a request when the read gives None (line 338), and
\* dl_csv then evaluates 'status' in None, which raises TypeError (line 416)
GetMeasureToken(tokresp, v) ==
  LET r == accessToken(Self, rc, now, tokresp)
  IN /\ pc = "getmeasure"
     /\ Become(r.o)
     /\ rc' = r.f
     /\ ret' = r.ret /\ prev' = ret /\ sent' = r.sent
     /\ IF r.ret = NONE
        THEN /\ pc' = "raised"
             /\ n' = n + 1
             /\ UNCHANGED <<sink, buf, start, items, i, pages, honest, killed,
                            sink0, reqs>>
        ELSE /\ (r.ret = RetFalse) => (v.status # "ok")
             /\ GetMeasure(v)
     /\ UNCHANGED <<now, dirvars>>

\* the exception has left dl_csv: the interpreter closes csv_file when it
\* drops it, which writes the pending characters (an interruption before
\* that is Kill)
Finalize ==
  /\ pc = "raised"
  /\ sink' = sink \o buf
  /\ buf' = <<>>
  /\ pc' = "idle"
  /\ start' = 0 /\ n' = 0 /\ items' = <<>> /\ i' = 0 /\ pages' = <<>>
  /\ sink0' = sink'
  /\ UNCHANGED <<reqs, honest, killed>>

InitExportToken ==
  /\ ExpIdle /\ DirIdle
  /\ \E c \in Configurations : IsObject(init(c, NoRc))
  /\ rc = NoRc /\ now = 0 /\ ret = NoRet /\ prev = NoRet /\ sent = <<>>

NextExportToken ==
  \/ Open /\ UNCHANGED <<tokvars, dirvars>>
  \/ \E tokresp \in ExportTokenResponses, v \in Responses(start) :
       GetMeasureToken(tokresp, v)
  \/ WriteRow /\ UNCHANGED <<tokvars, dirvars>>
  \/ EndPage /\ UNCHANGED <<tokvars, dirvars>>
  \/ Close /\ UNCHANGED <<tokvars, dirvars>>
  \/ Finalize /\ UNCHANGED <<tokvars, dirvars>>
  \/ Kill /\ UNCHANGED <<tokvars, dirvars>>

SpecExportToken == InitExportToken /\ [][NextExportToken]_vars

(***************************************************************************)
(* Reads of accessToken.                                                   *)
(***************************************************************************)
IsToken(x) == x \notin {NONE, RetFalse, NoRet}
Refresh == <<"refresh_token">>
TokenExpired == access_token # NONE /\ expiration <= now
HasClient == client_id # NONE /\ client_secret # NONE

(***************************************************************************)
(* C1.  Whenever the access token is present and its recorded expiration   *)
(* is <= now, the next read of accessToken issues exactly one              *)
(* refresh-grant request and, when the request succeeds, returns the new   *)
(* token of the response; no read returns a token whose recorded           *)
(* expiration is <= now without having issued a refresh request.           *)
(***************************************************************************)
RefreshedOnRead(resp) ==
  /\ sent' = Refresh
  /\ resp.kind = "ok" => (ret' = resp.access_token /\ access_token' = ret')

C1_ExpiredTokenIsRefreshed ==
  [][\A resp \in TokenResponses :
       (TokenExpired /\ AccessToken(resp)) => RefreshedOnRead(resp)]_vars

\* C1 as amended: the same, for an object whose client id and client
\* secret are present; without them the read returns no token at all.
C1_ExpiredTokenIsRefreshedWithClient ==
  [][\A resp \in TokenResponses :
       (TokenExpired /\ AccessToken(resp)) =>
          /\ HasClient => RefreshedOnRead(resp)
          /\ ~HasClient => (ret' = NONE /\ sent' = <<>>)
          /\ IsToken(ret') => sent' = Refresh]_vars

C1_Witness ==
  /\ sent = Refresh /\ IsToken(ret) /\ ret = access_token /\ HasClient
  /\ IsToken(prev) /\ prev # ret

(***************************************************************************)
(* C2.  With a complete credential set, a read of accessToken that         *)
(* obtained a token, followed by a second read while now < expiration,     *)
(* returns the same token and issues no request on the second read.        *)
(***************************************************************************)
CompleteCredentials ==
  HasClient /\ username # NONE /\ password # NONE

C2_SecondReadReusesToken ==
  [][\A resp \in TokenResponses :
       (CompleteCredentials /\ IsToken(ret) /\ now < expiration
          /\ AccessToken(resp)) =>
          (ret' = ret /\ sent' = <<>>)]_vars

C2_Witness ==
  /\ CompleteCredentials /\ IsToken(prev) /\ ret = prev /\ sent = <<>>
  /\ now < expiration

(***************************************************************************)
(* C3.  When credentials are missing (client id or client secret absent,   *)
(* or username/password absent or empty), every read of accessToken        *)
(* returns the unavailable result and issues no network request.           *)
(***************************************************************************)
CredentialsMissing ==
  \/ client_id = NONE \/ client_secret = NONE
  \/ username \in {NONE, ""} \/ password \in {NONE, ""}

C3_MissingCredentialsNoRequest ==
  [][\A resp \in TokenResponses :
       (CredentialsMissing /\ AccessToken(resp)) =>
          (ret' = NONE /\ sent' = <<>>)]_vars

(***************************************************************************)
(* C4.  Immediately after every successful password grant or refresh the   *)
(* durable token record (access token, refresh token, expiration) equals   *)
(* the in-memory token state, so that a new session constructed from the   *)
(* same storage starts with that token.                                    *)
(***************************************************************************)
Granted(resp) == resp.kind = "ok" /\ sent' # <<>> /\ AccessToken(resp)

C4_DurableEqualsMemory ==
  [][\A resp \in TokenResponses :
       Granted(resp) =>
          /\ rc'.exists /\ rc'.tokens.has
          /\ rc'.tokens.access_token = access_token'
          /\ rc'.tokens.refresh_token = refresh_token'
          /\ FromIso(rc'.tokens.expiration) = expiration']_vars

\* C4 as amended: for an object that has a configuration file, the stored
\* access and refresh token equal the in-memory ones and the stored
\* expiration is the in-memory expiration cut to its whole second; a new
\* session on that file starts with that token.  An object built from a
\* dict has no file and stores nothing.
StoredLikeMemory ==
  /\ rc'.exists /\ rc'.tokens.has
  /\ rc'.tokens.access_token = access_token'
  /\ rc'.tokens.refresh_token = refresh_token'
  /\ rc'.tokens.expiration = IsoSecond(expiration')
  /\ LET restarted == init([type |-> "str", dict |-> AllNone,
                            path |-> rc_file], rc')
     IN /\ restarted.access_token = access_token'
        /\ restarted.refresh_token = refresh_token'
        /\ restarted.expiration <= expiration'
        /\ expiration' - restarted.expiration < SubSec

C4_DurableTokenAfterGrant ==
  [][\A resp \in TokenResponses :
       Granted(resp) =>
          IF rc_file # NONE THEN StoredLikeMemory ELSE rc' = rc]_vars

C4_Witness ==
  /\ rc_file # NONE /\ sent = Refresh /\ IsToken(ret) /\ ret = access_token
  /\ rc.exists /\ rc.tokens.has /\ rc.netatmo.has
  /\ rc.tokens.access_token = access_token
  /\ FromIso(rc.tokens.expiration) < expiration

(***************************************************************************)
(* C14.  When a refresh-grant request for an expired token is answered     *)
(* with an upstream error, the read reports unavailable and leaves the     *)
(* object in a state where the next read of accessToken issues a           *)
(* password-grant request, not a refresh with the stale refresh token.     *)
(***************************************************************************)
SelfNext ==
  [client_id |-> client_id', client_secret |-> client_secret',
   username |-> username', password |-> password',
   access_token |-> access_token', refresh_token |-> refresh_token',
   expiration |-> expiration', default_station |-> default_station',
   rc_file |-> rc_file']

Password == <<"password">>

C14_RefreshErrorForcesReauth ==
  [][\A resp \in TokenResponses :
       (resp.kind = "error" /\ TokenExpired /\ CompleteCredentials
          /\ AccessToken(resp)) =>
          /\ ret' = NONE
          /\ \A next \in TokenResponses :
                accessToken(SelfNext, rc', now', next).sent = Password]_vars

(***************************************************************************)
(* C15.  When a password-grant request is answered with an upstream error, *)
(* the read returns unavailable, the in-memory token fields are unchanged  *)
(* (no token), nothing is written to the configuration file, and exactly   *)
(* one request was issued.                                                 *)
(***************************************************************************)
C15_PasswordErrorChangesNothing ==
  [][\A resp \in TokenResponses :
       (resp.kind = "error" /\ access_token = NONE /\ CompleteCredentials
          /\ AccessToken(resp)) =>
          /\ ret' = NONE
          /\ sent' = Password
          /\ access_token' = NONE
          /\ refresh_token' = refresh_token /\ expiration' = expiration
          /\ rc' = rc]_vars

C15_Witness ==
  /\ sent = Password /\ ret = NONE /\ access_token = NONE
  /\ CompleteCredentials /\ rc_file # NONE /\ rc.exists

(***************************************************************************)
(* C16.  In every reachable state of a session the refresh token is        *)
(* present if and only if the access token is present.                     *)
(***************************************************************************)
C16_RefreshIffAccess == (refresh_token # NONE) <=> (access_token # NONE)

(***************************************************************************)
(* C17.  The configuration file never holds the token section without the  *)
(* credentials section.                                                    *)
(***************************************************************************)
C17_TokensOnlyWithCredentials ==
  (rc.exists /\ rc.tokens.has) => rc.netatmo.has

(***************************************************************************)
(* C6.  Starting from an empty sink, after any sequence of export runs     *)
(* that each ended by a stop condition, against an upstream that only      *)
(* returns timestamps at or after the requested begin, consecutive data    *)
(* rows of the sink have strictly increasing timestamps.                   *)
(***************************************************************************)
C6_SinkStrictlyIncreasing ==
  (pc = "idle" /\ honest /\ ~killed) => StrictlyIncreasing(RowTs(FileBytes(sink)))

(***************************************************************************)
(* C7.  If the sink's last row already has a timestamp >= windowEnd when   *)
(* a run opens it, the run appends no row, whatever the upstream returns.  *)
(***************************************************************************)
ReachesWindowEnd(f) ==
  LET r == RowTs(FileBytes(f)) IN r # <<>> /\ r[Len(r)] >= WindowEnd

C7_CoveredSinkGetsNoRow ==
  (pc # "idle" /\ ReachesWindowEnd(sink0)) => RowTs(Written) = RowTs(FileBytes(sink0))

(***************************************************************************)
(* C8.  Export stops on coverage: every entry of every page received is    *)
(* written; no request follows a page whose highest timestamp is >=        *)
(* windowEnd; an empty page ends the run with no row written for it; and   *)
(* from an empty sink the pages {T0, T0+1} then {T0+2, windowEnd} give     *)
(* exactly 2 requests and the 4 rows T0, T0+1, T0+2, windowEnd in order.   *)
(***************************************************************************)
RECURSIVE PagesWritten(_, _)
\* rs is, page after page, the entries of the pages ps
PagesWritten(ps, rs) ==
  IF ps = <<>> THEN rs = <<>>
  ELSE LET c == Cardinality(Head(ps))
       IN /\ Len(rs) >= c
          /\ {rs[k] : k \in 1..c} = Head(ps)
          /\ PagesWritten(Tail(ps), SubSeq(rs, c + 1, Len(rs)))

\* the timestamps of the rows this run has written
RunRows ==
  LET r0 == RowTs(FileBytes(sink0))
      r == RowTs(Written)
  IN SubSeq(r, Len(r0) + 1, Len(r))

BetweenPages == pc \in {"getmeasure", "endpage", "the_end", "last_measure", "error"}

ScenarioT0 == MinTs
ScenarioPages ==
  <<{ScenarioT0, ScenarioT0 + 1}, {ScenarioT0 + 2, WindowEnd}>>

C8_StopsOnCoverage ==
  /\ (BetweenPages =>
       /\ IsPrefix(RowTs(FileBytes(sink0)), RowTs(Written))
       /\ PagesWritten(pages, RunRows))
  /\ \A k \in 1..Len(pages) :
       (k < Len(pages) \/ pc = "getmeasure") =>
          (pages[k] # {} /\ \A t \in pages[k] : t < WindowEnd)
  /\ (pc = "the_end" => (pages # <<>> /\ pages[Len(pages)] = {}))
  /\ (BetweenPages /\ FileBytes(sink0) = <<>> /\ Len(pages) >= 2
        /\ SubSeq(pages, 1, 2) = ScenarioPages) =>
       /\ pc \in {"endpage", "last_measure"}
       /\ n = 2 /\ Len(pages) = 2
       /\ RowTs(Written) =
            <<ScenarioT0, ScenarioT0 + 1, ScenarioT0 + 2, WindowEnd>>

C8_Witness ==
  /\ pc = "last_measure" /\ n = 2 /\ pages = ScenarioPages
  /\ FileBytes(sink0) = <<>>
  /\ Len(RowTs(Written)) = 4

(***************************************************************************)
(* C9.  A measurement response with no status, or a status other than      *)
(* "ok", aborts the run at that response: no row of it is written, no      *)
(* further request is issued, and every row written earlier in the run or  *)
(* in earlier runs is in the sink, unchanged, when the run has closed it.  *)
(***************************************************************************)
AbortedHere ==
  \A v \in Responses(start) :
     (GetMeasure(v) /\ v.status # "ok") =>
        (pc' = "error" /\ sink' = sink /\ buf' = buf)

ClosedAfterAbort ==
  (pc = "error") =>
     (Kill \/ (pc' = "idle" /\ reqs' = reqs /\ sink' = Written))

RowsKeptAtAbort ==
  (pc = "error") =>
     (IsPrefix(FileBytes(sink0), Written) /\ PagesWritten(pages, RunRows))

C9_AbortKeepsRows ==
  []RowsKeptAtAbort /\ [][AbortedHere /\ ClosedAfterAbort]_vars

C9_Witness == pc = "error" /\ Len(RunRows) > 0 /\ n = 2

(***************************************************************************)
(* C10.  An export interrupted at any point leaves the sink with complete  *)
(* rows only, all the rows written before the interruption, in strictly    *)
(* increasing order, so that the next run resumes at the last row's        *)
(* timestamp + 1.                                                          *)
(***************************************************************************)
CompleteLines(f) ==
  /\ (f # <<>> => f[Len(f)] = NL)
  /\ \A k \in 1..Len(SplitLines(f)) :
       LET line == Append(SplitLines(f)[k], NL)
       IN line = Header \/ \E t \in Stamps : line = Row(t)

C10_InterruptKeepsRows ==
  [][Kill =>
       /\ CompleteLines(FileBytes(sink'))
       /\ RowTs(FileBytes(sink')) = RowTs(Written)
       /\ (honest => StrictlyIncreasing(RowTs(FileBytes(sink'))))]_vars

(***************************************************************************)
(* C18.  Every page request carries a begin timestamp equal to the resume  *)
(* cursor: the resume point of the sink for the first request of a run,    *)
(* the highest timestamp written so far in the run + 1 for each following  *)
(* request; so every request after the first asks only for timestamps      *)
(* strictly greater than every timestamp already in the sink.  Stated for  *)
(* an upstream that returns only timestamps at or after the begin asked.   *)
(***************************************************************************)
SeqMax(ts) == CHOOSE m \in {ts[k] : k \in 1..Len(ts)} :
                \A k \in 1..Len(ts) : ts[k] <= m

C18_RequestsBeginAtCursor ==
  [][\A v \in Responses(start) :
       (honest /\ GetMeasure(v)) =>
          /\ BeginOf(DateBegin(start)) = start
          /\ (n = 0 => start = ResumeStart(sink0))
          /\ (n > 0 =>
                /\ RunRows # <<>>
                /\ start = SeqMax(RunRows) + 1
                /\ \A k \in 1..Len(RowTs(Written)) :
                      RowTs(Written)[k] < start)]_vars

(***************************************************************************)
(* C19.  For every page, export appends one row per entry in ascending     *)
(* numeric timestamp order, whatever the number of digits of the           *)
(* timestamps.                                                             *)
(***************************************************************************)
C19_PageRowsAscending ==
  (pc = "endpage") =>
     /\ Len(items) = Cardinality(pages[Len(pages)])
     /\ Len(RunRows) >= Len(items)
     /\ SubSeq(RunRows, Len(RunRows) - Len(items) + 1, Len(RunRows)) = items
     /\ StrictlyIncreasing(items)

(***************************************************************************)
(* C20.  In every export run the resume cursor never decreases and is      *)
(* strictly greater at each request than at the request before it, for any *)
(* page contents, and the run issues at most                               *)
(* windowEnd - initial cursor + 1 requests.                                *)
(***************************************************************************)
CursorAdvances ==
  /\ (pc # "idle" /\ pc' # "idle") => start' >= start
  /\ (pc = "endpage" /\ pc' = "getmeasure") => start' > start

RequestsBounded ==
  (pc # "idle" /\ n > 0) => n <= WindowEnd - ResumeStart(sink0) + 1

C20_ForwardProgress == []RequestsBounded /\ [][CursorAdvances]_vars

(***************************************************************************)
(* C11.  stationByName returns the matching entry by priority: an empty or *)
(* absent identifier stands for the stored default station; an exact       *)
(* station-name match is preferred over an id match; an id matches         *)
(* case-insensitively; with no match, or no snapshot, the result is None.  *)
(* Stated for the calls that have an identifier or a stored default.       *)
(***************************************************************************)
Absent(t) == t = NoStation \/ t = <<>>
Least(S) == CHOOSE k \in S : \A j \in S : k <= j

ClaimedStation(devs, default, station) ==
  LET ident == IF Absent(station) THEN default ELSE station
      byName == {k \in 1..Len(devs.list) :
                   devs.list[k].station_name = ident}
      byId == {k \in 1..Len(devs.list) :
                 lower(devs.list[k]._id) = lower(ident)}
  IN IF devs.none THEN NoneResult
     ELSE IF byName # {} THEN Entry(devs.list[Least(byName)])
     ELSE IF byId # {} THEN Entry(devs.list[Least(byId)])
     ELSE NoneResult

C11_StationByPriority ==
  [][\A station \in StationArgs :
       (~(Absent(station) /\ Absent(default_station))
          /\ StationByName(station)) =>
          result' = ClaimedStation(devices, default_station, station)]_vars

(***************************************************************************)
(* C12.  moduleByName applies the rules of station resolution (exact name  *)
(* match, case-insensitive id match) to the station's own primary module   *)
(* first and then to each attached module, and returns None when the       *)
(* station is not found or no module matches.  Stated for the calls with a *)
(* non-empty module identifier.                                            *)
(***************************************************************************)
ClaimedModule(devs, default, module, station) ==
  LET s == stationByName(devs, default, station)
      candidates == IF s = NoneResult THEN <<>>
                    ELSE <<s.entry>> \o s.entry.modules
      matching == {k \in 1..Len(candidates) :
                     \/ candidates[k].module_name = module
                     \/ lower(candidates[k]._id) = lower(module)}
  IN IF matching = {} THEN NoneResult
     ELSE Entry(candidates[Least(matching)])

C12_ModuleByPriority ==
  [][\A module \in ModuleArgs, station \in ModuleStationArgs :
       (module # <<>> /\ ModuleByName(module, station)) =>
          result' = ClaimedModule(devices, default_station, module,
                                  station)]_vars

(***************************************************************************)
(* C13.  setDefaultStation: a value matching the MAC pattern (six hex byte *)
(* groups separated by ':' or '-', any case) is stored lower-cased with no *)
(* request; any other non-empty value triggers a fresh directory fetch     *)
(* and the default becomes the id of the station resolved in that fresh    *)
(* snapshot; when it does not resolve, the call returns False and the      *)
(* stored default is unchanged.  A fetch is expected only of a call whose  *)
(* read of accessToken yields a token.                                     *)
(***************************************************************************)
ClaimedMac(t) ==
  /\ Len(t) = 3 * MacGroups - 1
  /\ \A k \in 1..Len(t) :
       IF k % 3 = 0 THEN t[k] \in {":", "-"}
       ELSE LowerChar(t[k]) \in HexChars

ClaimedDefault(device, tokresp, dirresp) ==
  LET token == accessToken(Self, rc, now, tokresp).ret
      fresh == IF token # NONE /\ dirresp.kind = "ok"
               THEN Devices(dirresp.devices) ELSE NoDevices
      found == stationByName(fresh, default_station, device)
  IN IF ClaimedMac(device)
     THEN /\ default_station' = lower(device)
          /\ sent' = <<>>
          /\ result' = Bool(TRUE)
     ELSE /\ (token # NONE) =>
               (sent' # <<>> /\ sent'[Len(sent')] = "getstationsdata")
          /\ IF found # NoneResult
             THEN /\ default_station' = found.entry._id
                  /\ result' = Bool(TRUE)
             ELSE /\ default_station' = default_station
                  /\ result' = Bool(FALSE)

C13_DefaultStationTwoPaths ==
  [][\A device \in DeviceArgs, tokresp \in DirTokenResponses,
        dirresp \in DirResponses :
       (device # <<>> /\ SetDefaultStation(device, tokresp, dirresp)) =>
          ClaimedDefault(device, tokresp, dirresp)]_vars

(***************************************************************************)
(* C21.  The sink is append-only: no step of an export run modifies or     *)
(* removes content already in the sink; the header row is written exactly  *)
(* when the sink is empty or absent at open; so a sink that is not empty   *)
(* has exactly one header row, its first line, and a run that has closed   *)
(* the sink leaves it with that header.                                    *)
(***************************************************************************)
HeaderLine == SubSeq(Header, 1, Len(Header) - 1)

OneHeaderFirst(f) ==
  LET ls == SplitLines(f)
  IN /\ IsPrefix(Header, f)
     /\ \A k \in 2..Len(ls) : ls[k] # HeaderLine

AppendOnly ==
  /\ IsPrefix(FileBytes(sink), FileBytes(sink'))
  /\ (pc # "idle" /\ ~Kill) => IsPrefix(Written, Written')

HeaderAtOpen ==
  (pc = "idle" /\ pc' # "idle") =>
     Written' = FileBytes(sink) \o (IF FileBytes(sink) = <<>> THEN Header
                                    ELSE <<>>)

HeaderOnce ==
  /\ (FileBytes(sink) # <<>>) => OneHeaderFirst(FileBytes(sink))
  /\ (pc # "idle") => OneHeaderFirst(Written)
  /\ (pc = "idle" /\ sink # NoFile /\ ~killed) => FileBytes(sink) # <<>>

C21_AppendOnlyOneHeader == []HeaderOnce /\ [][AppendOnly /\ HeaderAtOpen]_vars

C21_Witness ==
  /\ pc = "getmeasure" /\ n = 0
  /\ RowTs(FileBytes(sink0)) # <<>>
  /\ Written = FileBytes(sink0)

(***************************************************************************)
(* C22.  A credential change invalidates tokens: after auth() the          *)
(* in-memory access token is absent, and a read of accessToken made while  *)
(* it is absent issues a password grant or returns unavailable, never a    *)
(* token held before; after saveCredentials by an object that has a        *)
(* configuration file, the file holds no token section, so a new session   *)
(* on it starts without a token.                                           *)
(***************************************************************************)
AuthClearsToken ==
  \A a \in AuthArgs : Auth(a) => access_token' = NONE

ReadWithoutToken ==
  \A resp \in TokenResponses :
     (access_token = NONE /\ AccessToken(resp)) =>
        \/ /\ sent' = Password
           /\ IF resp.kind = "ok" THEN ret' = resp.access_token
              ELSE ret' \in {NONE, RetFalse}
        \/ sent' = <<>> /\ ret' = NONE

SaveDropsTokens ==
  (SaveCredentials /\ rc_file # NONE) =>
     /\ rc'.exists /\ rc'.netatmo.has /\ ~rc'.tokens.has
     /\ init([type |-> "str", dict |-> AllNone, path |-> rc_file],
             rc').access_token = NONE

C22_CredentialChangeDropsTokens ==
  [][AuthClearsToken /\ ReadWithoutToken /\ SaveDropsTokens]_vars

C22_Witness ==
  /\ rc_file # NONE /\ rc.exists /\ rc.netatmo.has /\ ~rc.tokens.has
  /\ access_token = NONE /\ refresh_token # NONE
  /\ sent = <<>> /\ ret = NoRet

(***************************************************************************)
(* C23.  When the read of accessToken gives no token as export requests a  *)
(* page (missing credentials, or a grant or refresh error in the middle of *)
(* a run), the run stops like on any other stop condition: it does not     *)
(* raise, writes no row for that request, and keeps every row written      *)
(* before.                                                                 *)
(***************************************************************************)
NoToken(tokresp) == accessToken(Self, rc, now, tokresp).ret = NONE

C23_NoTokenStopsCleanly ==
  [][\A tokresp \in ExportTokenResponses, v \in Responses(start) :
       (pc = "getmeasure" /\ NoToken(tokresp)
          /\ GetMeasureToken(tokresp, v)) =>
          /\ pc' \in {"error", "the_end", "last_measure"}
          /\ sink' = sink /\ buf' = buf]_vars

====
